---- MODULE Spec2Model ----
(***************************************************************************)
(* A model of the simpleforce client (src/errorHelpers.go): the error      *)
(* classifier, the retry predicate, the session state of Client, and the   *)
(* operations Query, LoginPassword, SetSidLoc, makeURL, RefreshToken,      *)
(* RevokeToken and GetCreatedUpdatedRecords with its fork-join fan-out.    *)
(*                                                                         *)
(* Strings the code concatenates or rewrites (URLs, the API version) are   *)
(* sequences of tokens, so that strings.Replace and fmt.Sprintf are        *)
(* computed token by token.  HTTP bodies are records describing what the   *)
(* JSON and XML decoders of Go see in them.  Client.user, which no          *)
(* operation reads, is left out.                                           *)
(***************************************************************************)
EXTENDS Integers, Sequences, FiniteSets

\* ---------------------------------------------------------------- bounds
\* RetryLogic is applied to every integer in -MaxStatus .. MaxStatus.
MaxStatus == 510
\* Longest JSON error array in a response body.
MaxErrs == 2
\* Longest `ids` array in a changed-identifiers response.
MaxIds == 3

\* ---------------------------------------------------------------- errors
\* Go's nil error.
NoErr == [type |-> "nil", Code |-> "", Message |-> "", Extra |-> <<>>]

\* SfdcError{Code, Message, Extra}; Extra is <<>> for nil and
\* << <<"StatusCode", n>> >> for map[string]interface{}{"StatusCode": n}.
SfdcError(code, message, extra) ==
    [type |-> "SfdcError", Code |-> code, Message |-> message, Extra |-> extra]

ERR_FAILURE == SfdcError("GENERAL_FAILURE", "general failure", <<>>)

ERR_AUTHENTICATION == SfdcError("AUTH_ERROR", "authentication failure", <<>>)

ERR_DATA_NOT_FOUND == SfdcError("NOT_FOUND", "data not found", <<>>)

\* errors.New("retry call"): an *errors.errorString, not an SfdcError.
ERR_RETRY == [type |-> "errorString", Code |-> "", Message |-> "retry call", Extra |-> <<>>]

\* An error of another package handed through unchanged: net/http's transport
\* error, encoding/xml's and encoding/json's decode errors.
ForeignErr(pkg) == [type |-> pkg, Code |-> "", Message |-> pkg, Extra |-> <<>>]

\* errorCodes with its last entry lost.
errorCodes_short == <<500, 503>>

errorCodes == <<500, 503, 403>>

\* The loop of RetryLogic from index i on.
RECURSIVE RetryLogicFrom(_, _)
RetryLogicFrom(i, n) ==
    IF i > Len(errorCodes) THEN FALSE
    ELSE IF errorCodes[i] = n THEN TRUE
    ELSE RetryLogicFrom(i + 1, n)

RetryLogic(n) == RetryLogicFrom(1, n)

\* ---------------------------------------------------------------- bodies
\* A response body, by what the decoders find in it:
\*   kind   "json_array"   a JSON array of objects; elems holds, per object, the
\*                         values the fields message and errorCode decode to
\*          "json_null"    the JSON literal null
\*          "json_scalars" a JSON array whose elements are not objects ([1])
\*          "json_object"  a JSON object; ids is <<>> without an "ids" member and
\*                         <<v>> with one
\*          "xml"          well-formed XML with root element `root`; fault is
\*                         <<faultstring, faultcode>> when Body>Fault is there;
\*                         login is <<sessionId, serverUrl>> when
\*                         Body>loginResponse>result is there
\*          "garbage"      bytes neither decoder accepts
\*          "empty"        no bytes
Body(kind, elems, root, fault, login, ids) ==
    [kind |-> kind, elems |-> elems, root |-> root, fault |-> fault,
     login |-> login, ids |-> ids]

JsonArray(elems) == Body("json_array", elems, "", <<>>, <<>>, <<>>)
JsonNull == Body("json_null", <<>>, "", <<>>, <<>>, <<>>)
JsonScalars == Body("json_scalars", <<>>, "", <<>>, <<>>, <<>>)
JsonObject(ids) == Body("json_object", <<>>, "", <<>>, <<>>, ids)
Xml(root, fault, login) == Body("xml", <<>>, root, fault, login, <<>>)
Garbage == Body("garbage", <<>>, "", <<>>, <<>>, <<>>)
EmptyBody == Body("empty", <<>>, "", <<>>, <<>>, <<>>)

\* json.Unmarshal(responseBody, &jsonError) with jsonError a slice of
\* struct{Message, ErrorCode}: an array of objects decodes element by element, null
\* decodes to the nil slice, everything else is an error.
JsonUnmarshalErrors(body) ==
    CASE body.kind = "json_array" -> [ok |-> TRUE, val |-> body.elems]
      [] body.kind = "json_null" -> [ok |-> TRUE, val |-> <<>>]
      [] OTHER -> [ok |-> FALSE, val |-> <<>>]

\* xml.Unmarshal(responseBody, &xmlError): xmlError has no XMLName, so any root
\* element is accepted; the two fields stay "" when Body>Fault is absent.
XmlUnmarshalFault(body) ==
    IF body.kind = "xml"
    THEN [ok |-> TRUE,
          Message |-> IF body.fault = <<>> THEN "" ELSE body.fault[1],
          ErrorCode |-> IF body.fault = <<>> THEN "" ELSE body.fault[2]]
    ELSE [ok |-> FALSE, Message |-> "", ErrorCode |-> ""]

StatusExtra(statusCode) == << <<"StatusCode", statusCode>> >>

\* ParseSalesforceError: [panic, err].  jsonError[0] on an empty slice is an index
\* out of range, a run-time panic.
ParseSalesforceError(statusCode, responseBody) ==
    LET j == JsonUnmarshalErrors(responseBody)
        x == XmlUnmarshalFault(responseBody)
    IN  IF ~j.ok
        THEN IF ~x.ok
             THEN [panic |-> FALSE, err |-> ERR_FAILURE]
             ELSE [panic |-> FALSE,
                   err |-> SfdcError(x.ErrorCode, x.Message, StatusExtra(statusCode))]
        ELSE IF Len(j.val) = 0
             THEN [panic |-> TRUE, err |-> NoErr]
             ELSE [panic |-> FALSE,
                   err |-> SfdcError(j.val[1].errorCode, j.val[1].message,
                                     StatusExtra(statusCode))]

\* ---------------------------------------------------------------- strings
\* strings.Replace(s, "v", "", -1): every "v" is removed.
StripV(s) == SelectSeq(s, LAMBDA c : c # "v")

\* fmt.Sprintf(format, args...) for a format whose only verbs are %s: each "%s"
\* token is replaced by the next argument, a missing one by Go's marker.
RECURSIVE Sprintf(_, _)
Sprintf(format, args) ==
    IF format = <<>> THEN <<>>
    ELSE IF Head(format) = "%s"
         THEN IF args = <<>>
              THEN <<"%!s(MISSING)">> \o Sprintf(Tail(format), args)
              ELSE Head(args) \o Sprintf(Tail(format), Tail(args))
         ELSE <<Head(format)>> \o Sprintf(Tail(format), args)

\* strings.Replace(formatString, "query", "tooling/query", -1)
ReplaceQuery(format) ==
    [i \in DOMAIN format |-> IF format[i] = "query" THEN "tooling/query" ELSE format[i]]

\* url.PathEscape and url.QueryEscape on the characters the inputs hold.
PathEscape(s) == [i \in DOMAIN s |-> IF s[i] = " " THEN "%20" ELSE s[i]]

QueryEscape(s) ==
    [i \in DOMAIN s |->
        CASE s[i] = ":" -> "%3A"
          [] s[i] = "+" -> "%2B"
          [] s[i] = " " -> "+"
          [] OTHER -> s[i]]

\* url.Parse as parseHost uses it: an invalid escape is an error; otherwise the
\* scheme and the host are those around "://", both empty when it is absent.
UrlParse(input) ==
    IF \E i \in DOMAIN input : input[i] = "%zz"
    THEN [ok |-> FALSE, Scheme |-> <<>>, Host |-> <<>>]
    ELSE IF Len(input) >= 3 /\ input[2] = "://"
         THEN [ok |-> TRUE, Scheme |-> <<input[1]>>, Host |-> <<input[3]>>]
         ELSE [ok |-> TRUE, Scheme |-> <<>>, Host |-> <<>>]

parseHost(input) ==
    LET parsed == UrlParse(input)
    IN  IF parsed.ok
        THEN Sprintf(<<"%s", "://", "%s">>, <<parsed.Scheme, parsed.Host>>)
        ELSE <<"Failed to parse URL input">>

\* ---------------------------------------------------------------- inputs
Host == <<"https", "://", "na1.salesforce.com">>

\* NewClient's apiVersion argument.
APIVersions == {<<"43.0">>, <<"v", "43.0">>}

SessionIDs == {"", "sidA"}

\* SetSidLoc's arguments.
Locs == {Host}

\* Query's argument: a nextRecordsURL or a SOQL string.
NextRecordsURL == <<"/services/data", "/", "v", "43.0", "/query/01g-2000">>
SOQL == <<"SELECT", " ", "Id", " ", "FROM", " ", "Account">>
Queries == {NextRecordsURL, SOQL}

\* makeURL's argument.
Paths == {<<"sobjects">>, <<"services/oauth2/token">>}

\* The objects of a JSON error array.
ErrObjs == {[message |-> "Session expired", errorCode |-> "INVALID_SESSION_ID"],
            [message |-> "", errorCode |-> ""]}

SeqsUpTo(S, n) == UNION {[1..k -> S] : k \in 0..n}

FaultXml == Xml("Envelope", <<"INVALID_LOGIN: bad password", "INVALID_LOGIN">>, <<>>)
OtherXml == Xml("html", <<>>, <<>>)

\* The bodies ParseSalesforceError is applied to.
ErrBodies ==
    {JsonArray(e) : e \in SeqsUpTo(ErrObjs, MaxErrs)}
    \cup {JsonNull, JsonScalars, JsonObject(<<>>), FaultXml, OtherXml, Garbage, EmptyBody}

\* The bodies a server answers the client's requests with, whatever the status:
\* one of each way ParseSalesforceError ends, and a JSON object.
OpBodies ==
    {JsonArray(<<>>),
     JsonArray(<<[message |-> "Session expired", errorCode |-> "INVALID_SESSION_ID"]>>),
     JsonObject(<<>>), FaultXml, Garbage}

ServerURLs == {Host \o <<"/services/Soap/u/43.0/00D">>, <<"https", "://", "%zz">>}

\* Login response envelopes: with and without a session ID.
LoginBodies ==
    {Xml("Envelope", <<>>, <<s, u>>) : s \in SessionIDs, u \in ServerURLs}

\* An element of an `ids` array: a JSON string or a JSON value of another type.
IdElems == {[isString |-> TRUE, val |-> "A"], [isString |-> TRUE, val |-> "B"],
            [isString |-> FALSE, val |-> "7"]}

\* The `ids` member: not an array, or an array of elements.
IdsValues ==
    {[isSeq |-> FALSE, items |-> <<>>]}
    \cup {[isSeq |-> TRUE, items |-> e] : e \in SeqsUpTo(IdElems, MaxIds)}

IdsBodies == {JsonObject(<<v>>) : v \in IdsValues}

\* The status codes ParseSalesforceError is applied to.
Statuses == {0, 199, 200, 204, 299, 300, 403, 404, 500, 503}

\* The status codes a server answers the client's requests with.
OpStatuses == {200, 403, 404, 500, 503}

\* What the HTTP client does with a request:
\*   stage "badurl"     http.NewRequest fails
\*         "transport"  httpClient.Do fails: no response
\*         "response"   a response with `status`, whose body reads as `body` in
\*                      full (read = "full") or breaks off with a read error
\*                      (read = "partial")
Resp(stage, status, read, body) ==
    [stage |-> stage, status |-> status, read |-> read, body |-> body]

NoResp == Resp("none", 0, "none", EmptyBody)

\* The exchanges of one request: the bodies of OpBodies with every status, and
\* those of `okBodies` with status 200.
Responses(okBodies) ==
    {Resp("badurl", 0, "none", EmptyBody), Resp("transport", 0, "none", EmptyBody)}
    \cup {Resp("response", s, "full", b) : s \in OpStatuses, b \in OpBodies}
    \cup {Resp("response", 200, "full", b) : b \in okBodies}
    \cup {Resp("response", s, "partial", EmptyBody) : s \in OpStatuses}

\* The bytes read from resp.Body, whose read error the caller may ignore: a body
\* that broke off is a prefix, which no decoder accepts.
ReadBody(resp) == IF resp.read = "full" THEN resp.body ELSE Garbage

\* ---------------------------------------------------------------- state
VARIABLES
    sessionID,      \* Client.sessionID
    instanceURL,    \* Client.instanceURL
    apiVersion,     \* Client.apiVersion
    useToolingAPI,  \* Client.useToolingAPI
    op,             \* the operation called last
    outcome,        \* "none", "running" (not yet returned), "returned", "panic"
    arg,            \* what the call was given: the HTTP exchange, or the number
    err,            \* the error it returned (NoErr for nil)
    ret,            \* the value it returned (<<>> for nil)
    url,            \* the URL it built (<<>> for none)
    netCalls,       \* the requests it handed to the HTTP client
    sobjs,          \* GetCreatedUpdatedRecords: the output slice
    task,           \* GetCreatedUpdatedRecords: per identifier, its goroutine
    idx,            \* GetCreatedUpdatedRecords: the loop's position
    wg              \* GetCreatedUpdatedRecords: the WaitGroup counter

client == <<sessionID, instanceURL, apiVersion, useToolingAPI>>
call == <<op, outcome, arg, err, ret, url, netCalls>>
batch == <<sobjs, task, idx, wg>>
vars == <<client, call, batch>>

\* No call of GetCreatedUpdatedRecords is in flight: its locals do not exist.
BatchIdle == sobjs' = <<>> /\ task' = <<>> /\ idx' = 0 /\ wg' = 0

\* The call `o` returns with error e and value r.
Return(o, a, e, r, u, n) ==
    /\ op' = o /\ outcome' = "returned" /\ arg' = a
    /\ err' = e /\ ret' = r /\ url' = u /\ netCalls' = n

\* The call `o` panics: the program ends.
Panic(o, a, u, n) ==
    /\ op' = o /\ outcome' = "panic" /\ arg' = a
    /\ err' = NoErr /\ ret' = <<>> /\ url' = u /\ netCalls' = n

\* A new call may start: the program runs and the client is used by one caller.
Ready == outcome \in {"none", "returned"}

BoolRet(b) == IF b THEN <<"true">> ELSE <<"false">>

\* isLoggedIn that takes every session for logged in.
isLoggedIn_always(sid) == TRUE

isLoggedIn(sid) == sid # ""

\* makeURL: the version the client stores afterwards, and the URL.
makeURL(inst, version, req) ==
    LET v == StripV(version)
    IN  [apiVersion |-> v,
         url |-> Sprintf(<<"%s", "/services/data/", "v", "%s", "/", "%s">>,
                         <<inst, v, req>>)]

\* The URL Query requests.
QueryURL(inst, version, tooling, q) ==
    IF q # <<>> /\ Head(q) = "/services/data"
    THEN Sprintf(<<"%s", "%s">>, <<inst, q>>)
    ELSE LET formatString == <<"%s", "/services/data/", "v", "%s", "/", "query", "?q=", "%s">>
         IN  Sprintf(IF tooling THEN ReplaceQuery(formatString) ELSE formatString,
                     <<inst, version, PathEscape(q)>>)

\* httpRequest: [panic, data, code, err, calls].
httpRequest(resp) ==
    CASE resp.stage = "badurl" ->
           [panic |-> FALSE, data |-> EmptyBody, code |-> 500,
            err |-> ForeignErr("net/url"), calls |-> 0]
      [] resp.stage = "transport" ->
           [panic |-> FALSE, data |-> EmptyBody, code |-> 400,
            err |-> ForeignErr("net/http"), calls |-> 1]
      [] OTHER ->
           IF resp.status < 200 \/ resp.status > 299
           THEN LET theError == ParseSalesforceError(resp.status, ReadBody(resp))
                IN  [panic |-> theError.panic, data |-> EmptyBody, code |-> resp.status,
                     err |-> theError.err, calls |-> 1]
           ELSE IF resp.read # "full"
                THEN [panic |-> FALSE, data |-> EmptyBody, code |-> 500,
                      err |-> ERR_FAILURE, calls |-> 1]
                ELSE [panic |-> FALSE, data |-> resp.body, code |-> resp.status,
                      err |-> NoErr, calls |-> 1]

\* json.Unmarshal into a struct (QueryResult, Token) or a map (SObject): a JSON
\* object decodes, null leaves the target as it is, anything else is an error.
JsonUnmarshalObject(body) == body.kind \in {"json_object", "json_null"}

\* xml.Unmarshal into loginResponse, whose XMLName demands the root Envelope:
\* [ok, SessionID, ServerURL].
XmlUnmarshalLogin(body) ==
    IF body.kind = "xml" /\ body.root = "Envelope"
    THEN [ok |-> TRUE,
          SessionID |-> IF body.login = <<>> THEN "" ELSE body.login[1],
          ServerURL |-> IF body.login = <<>> THEN <<>> ELSE body.login[2]]
    ELSE [ok |-> FALSE, SessionID |-> "", ServerURL |-> <<>>]

\* ---------------------------------------------------------------- actions
\* NewClient: an anonymous client.  The tooling flag has no setter in this file;
\* both of its values are taken, as set by the configuration before the first call.
Init ==
    /\ sessionID = "" /\ instanceURL = <<>>
    /\ apiVersion \in APIVersions
    /\ useToolingAPI \in BOOLEAN
    /\ op = "NewClient" /\ outcome = "none" /\ arg = NoResp
    /\ err = NoErr /\ ret = <<>> /\ url = <<>> /\ netCalls = 0
    /\ sobjs = <<>> /\ task = <<>> /\ idx = 0 /\ wg = 0

SetSidLoc(sid, loc) ==
    /\ Ready
    /\ sessionID' = sid
    /\ instanceURL' = loc
    /\ Return("SetSidLoc", NoResp, NoErr, <<>>, <<>>, 0)
    /\ BatchIdle
    /\ UNCHANGED <<apiVersion, useToolingAPI>>

CallRetryLogic(n) ==
    /\ Ready
    /\ Return("RetryLogic", Resp("none", n, "none", EmptyBody), NoErr,
              BoolRet(RetryLogic(n)), <<>>, 0)
    /\ BatchIdle
    /\ UNCHANGED client

CallParseSalesforceError(statusCode, responseBody) ==
    LET a == Resp("response", statusCode, "full", responseBody)
        r == ParseSalesforceError(statusCode, responseBody)
    IN  /\ Ready
        /\ IF r.panic
           THEN Panic("ParseSalesforceError", a, <<>>, 0)
           ELSE Return("ParseSalesforceError", a, r.err, <<>>, <<>>, 0)
        /\ BatchIdle
        /\ UNCHANGED client

CallMakeURL(req) ==
    LET m == makeURL(instanceURL, apiVersion, req)
    IN  /\ Ready
        /\ apiVersion' = m.apiVersion
        /\ Return("makeURL", NoResp, NoErr, m.url, m.url, 0)
        /\ BatchIdle
        /\ UNCHANGED <<sessionID, instanceURL, useToolingAPI>>

Query(q, resp) ==
    /\ Ready
    /\ IF ~isLoggedIn(sessionID)
       THEN Return("Query", NoResp, ERR_AUTHENTICATION, <<>>, <<>>, 0)
       ELSE LET u == QueryURL(instanceURL, apiVersion, useToolingAPI, q)
                h == httpRequest(resp)
            IN  IF h.panic
                THEN Panic("Query", resp, u, h.calls)
                ELSE IF h.err # NoErr
                THEN Return("Query", resp, h.err, <<>>, u, h.calls)
                ELSE IF RetryLogic(h.code)
                THEN Return("Query", resp, ERR_RETRY, <<>>, u, h.calls)
                ELSE IF ~JsonUnmarshalObject(h.data)
                THEN Return("Query", resp, ERR_FAILURE, <<>>, u, h.calls)
                ELSE Return("Query", resp, NoErr, <<"QueryResult">>, u, h.calls)
    /\ BatchIdle
    /\ UNCHANGED client

\* LoginPassword without its return on a status other than 200.
LoginStatusOK_any(status) == TRUE

\* LoginPassword goes on to parse the login response only for this status.
LoginStatusOK(status) == status = 200

LoginPassword(resp) ==
    /\ Ready
    /\ CASE resp.stage = "badurl" ->
              /\ Return("LoginPassword", resp, ForeignErr("net/url"), <<>>, <<>>, 0)
              /\ UNCHANGED <<sessionID, instanceURL>>
         [] resp.stage = "transport" ->
              /\ Return("LoginPassword", resp, ForeignErr("net/http"), <<>>, <<>>, 1)
              /\ UNCHANGED <<sessionID, instanceURL>>
         [] OTHER ->
              IF ~LoginStatusOK(resp.status)
              THEN LET theError == ParseSalesforceError(resp.status, ReadBody(resp))
                   IN  /\ IF theError.panic
                          THEN Panic("LoginPassword", resp, <<>>, 1)
                          ELSE Return("LoginPassword", resp, theError.err, <<>>, <<>>, 1)
                       /\ UNCHANGED <<sessionID, instanceURL>>
              ELSE LET loginResponse == XmlUnmarshalLogin(ReadBody(resp))
                   IN  IF ~loginResponse.ok
                       THEN /\ Return("LoginPassword", resp, ForeignErr("encoding/xml"),
                                      <<>>, <<>>, 1)
                            /\ UNCHANGED <<sessionID, instanceURL>>
                       ELSE /\ sessionID' = loginResponse.SessionID
                            /\ instanceURL' = parseHost(loginResponse.ServerURL)
                            /\ Return("LoginPassword", resp, NoErr, <<>>, <<>>, 1)
    /\ BatchIdle
    /\ UNCHANGED <<apiVersion, useToolingAPI>>

RefreshToken(resp) ==
    LET m == makeURL(instanceURL, apiVersion, <<"services/oauth2/token">>)
    IN  /\ Ready
        /\ apiVersion' = m.apiVersion
        /\ CASE resp.stage = "badurl" ->
                  Return("RefreshToken", resp, ERR_FAILURE, <<>>, m.url, 0)
             [] resp.stage = "transport" ->
                  Return("RefreshToken", resp, ForeignErr("net/http"), <<>>, m.url, 1)
             [] OTHER ->
                  IF resp.status < 200 \/ resp.status > 299
                  THEN LET theError == ParseSalesforceError(resp.status, ReadBody(resp))
                       IN  IF theError.panic
                           THEN Panic("RefreshToken", resp, m.url, 1)
                           ELSE Return("RefreshToken", resp, theError.err, <<>>, m.url, 1)
                  ELSE IF resp.read # "full"
                  THEN Return("RefreshToken", resp, ForeignErr("io"), <<>>, m.url, 1)
                  ELSE IF ~JsonUnmarshalObject(resp.body)
                  THEN Return("RefreshToken", resp, ForeignErr("encoding/json"), <<>>, m.url, 1)
                  ELSE Return("RefreshToken", resp, NoErr, <<"Token">>, m.url, 1)
        /\ BatchIdle
        /\ UNCHANGED <<sessionID, instanceURL, useToolingAPI>>

RevokeToken(resp) ==
    LET m == makeURL(instanceURL, apiVersion, <<"services/oauth2/revoke">>)
    IN  /\ Ready
        /\ apiVersion' = m.apiVersion
        /\ CASE resp.stage = "badurl" ->
                  Return("RevokeToken", resp, ERR_FAILURE, <<>>, m.url, 0)
             [] resp.stage = "transport" ->
                  Return("RevokeToken", resp, ForeignErr("net/http"), <<>>, m.url, 1)
             [] OTHER ->
                  IF resp.status < 200 \/ resp.status > 299
                  THEN LET theError == ParseSalesforceError(resp.status, ReadBody(resp))
                       IN  IF theError.panic
                           THEN Panic("RevokeToken", resp, m.url, 1)
                           ELSE Return("RevokeToken", resp, theError.err, <<>>, m.url, 1)
                  ELSE Return("RevokeToken", resp, NoErr, <<>>, m.url, 1)
        /\ BatchIdle
        /\ UNCHANGED <<sessionID, instanceURL, useToolingAPI>>

\* ------------------------------------------------- GetCreatedUpdatedRecords
\* The arguments of the call.
ObjName == <<"Account">>
StartDateTime == <<"2026-01-01T00", ":", "00", ":", "00", "+", "00", ":", "00">>
EndDateTime == <<"2026-01-02T00", ":", "00", ":", "00", "+", "00", ":", "00">>

Nil == <<>>

\* The record SObject.Get fetches for an identifier.
Record(id) == <<"SObject", "Account", id>>

\* client.SObject(name).Get(id): the record and no error, or no record and an error.
Get(id, ok) ==
    IF ok THEN [sobj |-> Record(id), err |-> NoErr]
    ELSE [sobj |-> Nil, err |-> ERR_FAILURE]

\* make([]*SObject, n)
MakeSlots(n) == [i \in 1..n |-> Nil]

\* The store of a goroutine that reads the loop's shared variables when it
\* runs, not its own index: every store lands in the first slot.
TaskStore_shared(slots, i, sobj, e) ==
    IF e = NoErr THEN [slots EXCEPT ![1] = sobj] ELSE slots

\* The store with its test inverted: if err != nil { sobjs[i] = sobj }.
TaskStore_inverted(slots, i, sobj, e) ==
    IF e # NoErr THEN [slots EXCEPT ![i] = sobj] ELSE slots

\* The goroutine's body after Get: if err == nil { sobjs[i] = sobj }.
TaskStore(slots, i, sobj, e) ==
    IF e = NoErr THEN [slots EXCEPT ![i] = sobj] ELSE slots

\* wg.Wait() returns when the counter is zero.
WaitReturns(counter) == counter = 0

\* The `ids` array of the call in flight.
Ids == arg.body.ids[1].items

\* From the call to the loop over the identifiers, or to an early return.
BatchStart(resp) ==
    /\ Ready
    /\ IF ~isLoggedIn(sessionID)
       THEN /\ Return("GetCreatedUpdatedRecords", NoResp, ERR_AUTHENTICATION, <<>>, <<>>, 0)
            /\ BatchIdle
            /\ UNCHANGED apiVersion
       ELSE LET m == makeURL(instanceURL, apiVersion,
                             <<"sobjects/", "%s", "/updated/?start=", "%s", "&end=", "%s">>)
                u == Sprintf(m.url, <<ObjName, QueryEscape(StartDateTime),
                                      QueryEscape(EndDateTime)>>)
                o == "GetCreatedUpdatedRecords"
            IN  /\ apiVersion' = m.apiVersion
                /\ CASE resp.stage = "badurl" ->
                          Return(o, resp, ERR_FAILURE, <<>>, u, 0) /\ BatchIdle
                     [] resp.stage = "transport" ->
                          \* resp is nil: resp.StatusCode dereferences it
                          Panic(o, resp, u, 1) /\ BatchIdle
                     [] OTHER ->
                          IF resp.status < 200 \/ resp.status > 299
                          THEN LET theError == ParseSalesforceError(resp.status, ReadBody(resp))
                               IN  /\ IF theError.panic
                                      THEN Panic(o, resp, u, 1)
                                      ELSE Return(o, resp, theError.err, <<>>, u, 1)
                                   /\ BatchIdle
                          ELSE IF RetryLogic(resp.status)
                          THEN Return(o, resp, ERR_RETRY, <<>>, u, 1) /\ BatchIdle
                          ELSE IF \/ resp.read # "full"
                                  \/ ~JsonUnmarshalObject(resp.body)
                                  \/ resp.body.ids = <<>>
                                  \/ ~resp.body.ids[1].isSeq
                          THEN Return(o, resp, ERR_FAILURE, <<>>, u, 1) /\ BatchIdle
                          ELSE IF Len(resp.body.ids[1].items) = 0
                          THEN Return(o, resp, NoErr, <<>>, u, 1) /\ BatchIdle
                          ELSE /\ op' = o /\ outcome' = "running" /\ arg' = resp
                               /\ err' = NoErr /\ ret' = <<>> /\ url' = u /\ netCalls' = 1
                               /\ sobjs' = MakeSlots(Len(resp.body.ids[1].items))
                               /\ task' = [i \in 1..Len(resp.body.ids[1].items) |-> "unspawned"]
                               /\ idx' = 1
                               /\ wg' = 0
    /\ UNCHANGED <<sessionID, instanceURL, useToolingAPI>>

\* One iteration of the loop: wg.Add(1) and the go statement, whose argument
\* id.(string) is evaluated here, in the caller, and panics on a non-string.
BatchSpawn ==
    /\ outcome = "running"
    /\ idx <= Len(Ids)
    /\ IF ~Ids[idx].isString
       THEN /\ outcome' = "panic"
            /\ wg' = wg + 1
            /\ UNCHANGED <<task, idx>>
       ELSE /\ wg' = wg + 1
            /\ task' = [task EXCEPT ![idx] = "running"]
            /\ idx' = idx + 1
            /\ UNCHANGED outcome
    /\ UNCHANGED <<client, op, arg, err, ret, url, netCalls, sobjs>>

\* The goroutine of identifier i: Get, the store into its slot, wg.Done().
BatchTask(i, ok) ==
    /\ outcome = "running"
    /\ i \in DOMAIN task
    /\ task[i] = "running"
    /\ LET r == Get(Ids[i].val, ok)
       IN  /\ sobjs' = TaskStore(sobjs, i, r.sobj, r.err)
           /\ task' = [task EXCEPT ![i] = IF ok THEN "fetched" ELSE "failed"]
    /\ wg' = wg - 1
    /\ netCalls' = netCalls + 1
    /\ UNCHANGED <<client, op, outcome, arg, err, ret, url, idx>>

\* After the loop: wg.Wait(), then return sobjs, nil.
BatchReturn ==
    /\ outcome = "running"
    /\ idx > Len(Ids)
    /\ WaitReturns(wg)
    /\ outcome' = "returned"
    /\ ret' = sobjs
    /\ err' = NoErr
    /\ UNCHANGED <<client, op, arg, url, netCalls, batch>>

\* The operations of one client, called one after the other.
Next ==
    \/ \E sid \in SessionIDs, loc \in Locs : SetSidLoc(sid, loc)
    \/ \E req \in Paths : CallMakeURL(req)
    \/ \E q \in Queries, resp \in Responses({}) : Query(q, resp)
    \/ \E resp \in Responses(LoginBodies \cup {OtherXml}) : LoginPassword(resp)
    \/ \E resp \in Responses({}) : RefreshToken(resp)
    \/ \E resp \in Responses({}) : RevokeToken(resp)
    \/ \E resp \in Responses(IdsBodies) : BatchStart(resp)
    \/ BatchSpawn
    \/ \E i \in 1..MaxIds, ok \in BOOLEAN : BatchTask(i, ok)
    \/ BatchReturn

Spec == Init /\ [][Next]_vars

\* RetryLogic applied to every integer of the range.
NextRetryLogic == \E n \in (0 - MaxStatus)..MaxStatus : CallRetryLogic(n)

SpecRetryLogic == Init /\ [][NextRetryLogic]_vars

\* ParseSalesforceError applied to every status code and body.
NextParse == \E s \in Statuses, b \in ErrBodies : CallParseSalesforceError(s, b)

SpecParse == Init /\ [][NextParse]_vars

\* ---------------------------------------------------------------- claims
RetryableSet == {500, 503, 403}

\* C1: in Query and GetCreatedUpdatedRecords on an authenticated session, a
\* response whose status is 500, 503 or 403 makes the call fail with ERR_RETRY,
\* which is neither an SfdcError nor ERR_FAILURE.
C1_RetryableStatusGivesRetry ==
    (/\ op \in {"Query", "GetCreatedUpdatedRecords"}
     /\ outcome = "returned"
     /\ arg.stage = "response"
     /\ arg.status \in RetryableSet)
    => /\ err = ERR_RETRY
       /\ ERR_RETRY.type # "SfdcError"
       /\ ERR_RETRY # ERR_FAILURE

\* The body is a JSON array of {message, errorCode} objects.
IsErrorArray(b) == b.kind = "json_array"

\* The body is a SOAP fault.
IsSoapFault(b) == b.kind = "xml" /\ b.fault # <<>>

\* C2: ParseSalesforceError returns an error value for every status code and
\* body and never panics, and returns ERR_FAILURE for a body that is neither a
\* JSON array of error objects nor a SOAP fault.
C2_ClassifyTotal ==
    op = "ParseSalesforceError"
    => /\ outcome = "returned"
       /\ err # NoErr
       /\ (~IsErrorArray(arg.body) /\ ~IsSoapFault(arg.body)) => err = ERR_FAILURE

\* C3: with an empty session ID, Query and GetCreatedUpdatedRecords return
\* ERR_AUTHENTICATION and no result, hand no request to the HTTP client and
\* start no goroutine.
C3_UnauthenticatedNoNetwork ==
    (op \in {"Query", "GetCreatedUpdatedRecords"} /\ sessionID = "")
    => /\ outcome = "returned"
       /\ err = ERR_AUTHENTICATION
       /\ ret = <<>>
       /\ url = <<>>
       /\ netCalls = 0
       /\ task = <<>>
       /\ wg = 0

C3_Witness ==
    /\ op = "Query" /\ sessionID = "" /\ outcome = "returned"
    /\ err = ERR_AUTHENTICATION /\ netCalls = 0

\* C4: GetCreatedUpdatedRecords starts one goroutine per identifier, each stores
\* only into the slot of its own index, and the call returns only when all have
\* finished: the result has one slot per identifier and slot i holds nothing
\* but the record of the i-th identifier.
C4_ForkJoinOwnSlot ==
    (op = "GetCreatedUpdatedRecords" /\ outcome \in {"running", "returned"} /\ err = NoErr)
    => /\ Len(sobjs) = Len(task)
       /\ \A i \in DOMAIN task :
            /\ task[i] \in {"unspawned", "running", "failed"} => sobjs[i] = Nil
            /\ task[i] = "fetched" => sobjs[i] = Record(Ids[i].val)
       /\ outcome = "returned" =>
            /\ ret = sobjs
            /\ Len(ret) = Len(Ids)
            /\ Len(task) = Len(Ids)
            /\ \A i \in DOMAIN task : task[i] \in {"fetched", "failed"}
            /\ wg = 0

C4_Witness ==
    /\ op = "GetCreatedUpdatedRecords" /\ outcome = "returned"
    /\ Len(ret) = MaxIds
    /\ ret[1] = Record("B") /\ ret[2] = Record("A")
    /\ \A i \in DOMAIN ret : ret[i] # Nil

\* The changed-identifiers request succeeded: a 2xx response, read in full, a
\* JSON object whose `ids` member is an array of strings.
IdsStepOK(resp) ==
    /\ resp.stage = "response"
    /\ resp.status >= 200 /\ resp.status <= 299
    /\ resp.read = "full"
    /\ resp.body.kind = "json_object"
    /\ resp.body.ids # <<>>
    /\ resp.body.ids[1].isSeq
    /\ \A i \in DOMAIN resp.body.ids[1].items : resp.body.ids[1].items[i].isString

\* C5: when the changed-identifiers request succeeds, whichever fetches fail,
\* GetCreatedUpdatedRecords returns no error and one slot per identifier, nil
\* for a failed fetch and the record for a successful one.
C5_SilentPartialFailure ==
    (op = "GetCreatedUpdatedRecords" /\ outcome = "returned" /\ IdsStepOK(arg))
    => /\ err = NoErr
       /\ Len(ret) = Len(Ids)
       /\ \A i \in DOMAIN ret :
            /\ task[i] = "failed" => ret[i] = Nil
            /\ task[i] = "fetched" => ret[i] # Nil /\ ret[i] = Record(Ids[i].val)

C5_Witness ==
    /\ op = "GetCreatedUpdatedRecords" /\ outcome = "returned" /\ err = NoErr
    /\ Len(ret) = 3
    /\ task = <<"fetched", "failed", "fetched">>
    /\ ret[1] # Nil /\ ret[2] = Nil /\ ret[3] # Nil

\* C6: whenever LoginPassword returns nil, the stored session ID is not empty.
C6_LoginAuthenticates ==
    (op = "LoginPassword" /\ outcome = "returned" /\ err = NoErr)
    => sessionID # ""

\* The changed-identifiers step failed: no request, no response, a status
\* outside 2xx, a body that broke off or is no JSON object, no `ids` member,
\* an `ids` that is no array, or an element of it that is no string.
IdsStepFails(resp) ==
    /\ resp.stage # "none"
    /\ ~IdsStepOK(resp)

\* C7: every failure of the changed-identifiers step is returned as an error,
\* without a panic and without a goroutine started.
C7_IdsStepFailureReturned ==
    (op = "GetCreatedUpdatedRecords" /\ IdsStepFails(arg))
    => /\ outcome = "returned"
       /\ err # NoErr
       /\ task = <<>>

\* C8: RetryLogic is true for 500, 503 and 403 and false for every other
\* integer.
C8_RetryLogicExact ==
    op = "RetryLogic"
    => /\ outcome = "returned"
       /\ ret = BoolRet(arg.status \in RetryableSet)

C8_Witness ==
    op = "RetryLogic" /\ arg.status = 403 /\ ret = <<"true">>

\* The login given this exchange fails: no response, a status other than 200,
\* or a body that is not a login envelope.
LoginFails(resp) ==
    \/ resp.stage # "response"
    \/ resp.status # 200
    \/ resp.read # "full"
    \/ resp.body.kind # "xml"
    \/ resp.body.root # "Envelope"

\* C9: the session ID and the instance URL change only in SetSidLoc and in a
\* login that succeeds; a failed login, Query, GetCreatedUpdatedRecords,
\* makeURL, RefreshToken and RevokeToken leave both as they are.
C9_SessionFrame ==
    [][(sessionID' # sessionID \/ instanceURL' # instanceURL)
       => \/ op' = "SetSidLoc"
          \/ /\ op' = "LoginPassword" /\ outcome' = "returned" /\ err' = NoErr
             /\ ~LoginFails(arg')]_vars

C9_Witness ==
    /\ op = "LoginPassword" /\ outcome = "returned" /\ err # NoErr
    /\ arg.stage = "response" /\ arg.status # 200
    /\ sessionID = "sidA" /\ instanceURL = Host

\* No "v" follows a "v" in the URL.
SingleV(u) == \A i \in 1..(Len(u) - 1) : ~(u[i] = "v" /\ u[i + 1] = "v")

\* C10: every URL makeURL and Query build has a single "v" before the version,
\* whatever was called on the client before.
C10_SingleVInEveryURL ==
    (op \in {"makeURL", "Query"} /\ url # <<>>) => SingleV(url)

====
